---- MODULE Spec2Model ----
(***************************************************************************)
(* A model of pg_partialcopy (src/pg_partialcopy.go): the orchestrator     *)
(* pgPartialCopy, the foreign-key drop / recreate loops and executeStep    *)
(* with its two goroutines joined by an io.Pipe and an errgroup.           *)
(*                                                                         *)
(* The databases are abstracted to what the program can observe: a table   *)
(* is a collection of integer ids (the test schema of src/main.go), a      *)
(* foreign key is the triple the catalog query returns, and one COPY data  *)
(* message carries one row.                                                *)
(***************************************************************************)
EXTENDS Integers, Sequences, FiniteSets, TLC

\* ------------------------------------------------------------------ bounds
\* Rows 1..SrcRows are in every source table when the run starts.
SrcRows == 2
\* Number of statements other sessions commit on the source during a run.
MaxSrcWrites == 1
\* Longest configured list of steps.
MaxSteps == 2

\* ------------------------------------------------------------ the schema
Tables == {"a", "b"}

\* create table b (id int primary key references a): what the catalog query
\* of dropForeignKeyConstraints returns for it.
FKb == [table |-> "b", name |-> "b_id_fkey",
        def |-> "FOREIGN KEY (id) REFERENCES a(id)"]
\* A second constraint in the opposite direction (a cycle of references, the
\* case no step order can satisfy while the constraints are in place).
FKa == [table |-> "a", name |-> "a_id_fkey",
        def |-> "FOREIGN KEY (id) REFERENCES b(id)"]

\* The table a constraint definition text refers to.
RefTable(def) ==
    CASE def = "FOREIGN KEY (id) REFERENCES a(id)" -> "a"
      [] def = "FOREIGN KEY (id) REFERENCES b(id)" -> "b"

Range(s) == {s[i] : i \in DOMAIN s}

RECURSIVE SortedSeq(_)
\* The ids of a set in ascending order: the order COPY streams them in.
SortedSeq(S) ==
    IF S = {} THEN <<>>
    ELSE LET m == CHOOSE x \in S : \A y \in S : x <= y
         IN <<m>> \o SortedSeq(S \ {m})

\* A destination database state satisfies a set of foreign keys.
FKHolds(fk, db) == Range(db[fk.table]) \subseteq Range(db[RefTable(fk.def)])
DBConsistent(db, fks) == \A fk \in fks : FKHolds(fk, db)
\* "id int primary key": no id twice in a table.
PrimaryKeysHold(db) ==
    \A t \in DOMAIN db : \A i, j \in DOMAIN db[t] : i # j => db[t][i] # db[t][j]

\* --------------------------------------------------------- configuration
InsertSQL == "insert into a (id) values (4)"
DeleteSQL == "delete from a where id > 1"
FilterSQL == "select id from a where id > 1"
TransformSQL == "select id*2 from a"

\* type Step struct
Step(t, sel, before, after) ==
    [TableName |-> t, SelectSQL |-> sel, BeforeCopySQL |-> before,
     AfterCopySQL |-> after]

\* The steps of the configurations of the tests (src/main.go:160-346).
StepChoices ==
    { Step("a", "", "", ""), Step("b", "", "", ""),
      Step("a", FilterSQL, "", ""), Step("a", TransformSQL, "", ""),
      Step("a", "", InsertSQL, DeleteSQL) }

StepLists == UNION { [1..n -> StepChoices] : n \in 0..MaxSteps }

\* The source and destination options: each may be empty or set.
SourceDestinationOptions ==
    { <<"", "dropdb --if-exists d && createdb d">>,
      <<"create temporary table selected (id int)", "">> }

\* type Config struct
Configs ==
    { [BeforeTransactionSQL |-> o[1], PrepareCommand |-> o[2], Steps |-> s] :
        o \in SourceDestinationOptions, s \in StepLists }

\* --------------------------------------------------------------- errors
NoErr == [msg |-> "", step |-> -1, table |-> "", inner |-> "", cause |-> ""]
\* fmt.Errorf("<msg>: %w", cause)
Wrap(msg, cause) ==
    [msg |-> msg, step |-> -1, table |-> "", inner |-> "", cause |-> cause]
\* A step error that names neither the step nor its table.
WrapStepNoIndex(i, t, inner, cause) ==
    [msg |-> "error executing step", step |-> -1, table |-> "",
     inner |-> inner, cause |-> cause]

\* fmt.Errorf("error executing step %d (%s): %w", i, step.TableName, err)
WrapStep(i, t, inner, cause) ==
    [msg |-> "error executing step", step |-> i, table |-> t,
     inner |-> inner, cause |-> cause]

\* What the servers and subprocesses answer when they fail.
ConnErr == "connection refused"
ExecErr == "ERROR: statement failed"
ExitErr == "exit status 1"
FKViolationErr == "ERROR: violates foreign key constraint"
UniqueViolationErr == "ERROR: duplicate key value violates unique constraint"
\* What the destination answers to a statement that would leave db in the
\* tables while the foreign keys fks are in place ("": it accepts it).
Refusal(db, fks) ==
    IF ~PrimaryKeysHold(db) THEN UniqueViolationErr
    ELSE IF ~DBConsistent(db, fks) THEN FKViolationErr
    ELSE ""
CopyToErr == "ERROR: division by zero"
CopyFromErr == "ERROR: invalid input syntax for type integer"
\* What either connection answers when the network fails under it.
ConnLostErr == "unexpected EOF"
\* The errors sourceConn.CopyTo and destinationConn.CopyFrom may return.
CopyToErrs == {CopyToErr, ConnLostErr}
CopyFromErrs == {CopyFromErr, ConnLostErr}

VARIABLES
    config,        \* the *Config handed to pgPartialCopy
    pc,            \* where pgPartialCopy / executeStep is
    err,           \* the error pgPartialCopy returned (NoErr: none)
    sourceConn,    \* "none" | "open" | "closed"
    destinationConn,
    srcTxn,        \* "none" | "open": the transaction on sourceConn
    srcDB,         \* the source tables as other sessions see them now
    srcWrites,     \* statements other sessions committed so far
    snapshot,      \* the source tables as the snapshot transaction sees them
    snapshotID,    \* "" until pg_export_snapshot() answered
    srcFKs,        \* the foreign keys of the source schema
    structureSQL,  \* what pg_dump printed: the foreign keys to create
    dstDB,         \* the destination tables (committed rows, in order)
    dstFKs,        \* the foreign keys present on the destination
    fkRows,        \* result.Rows of the catalog query
    fkPos,         \* rows of fkRows the drop loop has been through
    cmdPos,        \* commands the recreate loop has been through
    recreateCmds,  \* createForeignKeyConstraintCommands, then the caller's
                   \* recreateForeignKeyConstraintCommands
    idx,           \* i of "for i, step := range config.Steps"
    srcUnit,       \* first goroutine: "idle" | "running" | "ok" | "failed"
    dstUnit,       \* second goroutine
    pipe,          \* io.Pipe: [slot: pending Write, wClosed]
    remaining,     \* rows CopyTo has still to write
    received,      \* rows CopyFrom read from the pipe and sent to the
                   \* destination (kept by it only when the COPY ends well)
    gErr,          \* errgroup's first error ("" when none)
    streamBase,    \* the step's destination table when the stream started
    cancelledAt,   \* -1 while ctx is not done; once ctx.Done() is closed, the
                   \* number of phases that had been executed when it was
    log            \* history: the phases executed, in order

vars == <<config, pc, err, sourceConn, destinationConn, srcTxn, srcDB,
          srcWrites, snapshot, snapshotID, srcFKs, structureSQL, dstDB,
          dstFKs, fkRows, fkPos, cmdPos, recreateCmds, idx, srcUnit, dstUnit, pipe,
          remaining, received, gErr, streamBase, cancelledAt, log>>

\* ctx.Err() != nil: every pgconn call made or in flight fails.
CtxDone == cancelledAt >= 0

srcVars == <<srcDB, srcWrites, snapshot, snapshotID, srcFKs, srcTxn>>
fkVars == <<fkRows, fkPos, cmdPos, recreateCmds>>
streamVars == <<srcUnit, dstUnit, pipe, remaining, received, gErr, streamBase>>

EmptyDB == [t \in Tables |-> <<>>]
EmptyPipe == [slot |-> <<>>, wClosed |-> FALSE]

Ev(ph, i) == [ph |-> ph, i |-> i]

Init ==
    /\ config \in Configs
    /\ pc = "connectSource"
    /\ err = NoErr
    /\ sourceConn = "none"
    /\ destinationConn = "none"
    /\ srcTxn = "none"
    /\ srcDB = [t \in Tables |-> 1..SrcRows]
    /\ srcWrites = 0
    /\ snapshot = [t \in Tables |-> {}]
    /\ snapshotID = ""
    /\ srcFKs \in {{}, {FKb}, {FKa, FKb}}
    /\ structureSQL = {}
    /\ dstDB = EmptyDB
    /\ dstFKs = {}
    /\ fkRows = <<>>
    /\ fkPos = 0
    /\ cmdPos = 0
    /\ recreateCmds = <<>>
    /\ idx = 0
    /\ srcUnit = "idle"
    /\ dstUnit = "idle"
    /\ pipe = EmptyPipe
    /\ remaining = <<>>
    /\ received = <<>>
    /\ gErr = ""
    /\ streamBase = <<>>
    /\ cancelledAt = -1
    /\ log = <<>>

\* ------------------------------------------------------------ returning
\* A return that runs no deferred Close.
AbortLeavingOpen(e) ==
    /\ pc' = "aborted"
    /\ err' = e
    /\ UNCHANGED <<sourceConn, destinationConn>>

\* "return fmt.Errorf(...)": the deferred Close calls run, pgPartialCopy
\* returns e.
Abort(e) ==
    /\ pc' = "aborted"
    /\ err' = e
    /\ sourceConn' = IF sourceConn = "open" THEN "closed" ELSE sourceConn
    /\ destinationConn' =
          IF destinationConn = "open" THEN "closed" ELSE destinationConn

Goto(p) ==
    /\ pc' = p
    /\ UNCHANGED <<err, sourceConn, destinationConn>>

Logged(ph, i) == log' = Append(log, Ev(ph, i))

\* ------------------------------------------------ pgPartialCopy, phases
\* A run that never executes the before-transaction SQL.
ConnectSourceThenBegin ==
    /\ pc = "connectSource"
    /\ Logged("connectSource", -1)
    /\ \/ /\ sourceConn' = "open"
          /\ pc' = "begin"
          /\ UNCHANGED <<err, destinationConn>>
       \/ Abort(Wrap("error connecting to source database", ConnErr))
    /\ UNCHANGED <<config, cancelledAt, srcVars, structureSQL, dstDB, dstFKs, fkVars, idx,
                   streamVars>>

\* pgconn.Connect(ctx, config.Source.DatabaseURL)
ConnectSource ==
    /\ pc = "connectSource"
    /\ Logged("connectSource", -1)
    /\ \/ /\ ~CtxDone
          /\ sourceConn' = "open"
          /\ pc' = IF config.BeforeTransactionSQL # ""
                   THEN "beforeTransactionSQL" ELSE "begin"
          /\ UNCHANGED <<err, destinationConn>>
       \/ Abort(Wrap("error connecting to source database", ConnErr))
    /\ UNCHANGED <<config, cancelledAt, srcVars, structureSQL, dstDB, dstFKs, fkVars, idx,
                   streamVars>>

\* sourceConn.Exec(ctx, config.Source.BeforeTransactionSQL).Close()
BeforeTransactionSQL ==
    /\ pc = "beforeTransactionSQL"
    /\ Logged("beforeTransactionSQL", -1)
    /\ \/ ~CtxDone /\ Goto("begin")
       \/ Abort(Wrap("error executing before transaction SQL", ExecErr))
    /\ UNCHANGED <<config, cancelledAt, srcVars, structureSQL, dstDB, dstFKs, fkVars, idx,
                   streamVars>>

\* "begin isolation level serializable read only deferrable"
BeginTransaction ==
    /\ pc = "begin"
    /\ Logged("begin", -1)
    /\ \/ /\ ~CtxDone
          /\ Goto("exportSnapshot")
          /\ srcTxn' = "open"
       \/ /\ Abort(Wrap("error starting transaction", ExecErr))
          /\ UNCHANGED srcTxn
    /\ UNCHANGED <<config, cancelledAt, srcDB, srcWrites, snapshot, snapshotID, srcFKs,
                   structureSQL, dstDB, dstFKs, fkVars, idx, streamVars>>

\* A run that goes on to the dump whatever rows the snapshot export returned.
ExportSnapshotAnyRows ==
    /\ pc = "exportSnapshot"
    /\ Logged("exportSnapshot", -1)
    /\ \/ /\ Goto("dumpStructure")
          /\ snapshot' = srcDB
          /\ snapshotID' = "00000003-0000001B-1"
       \/ /\ Abort(Wrap("error exporting snapshot", ExecErr))
          /\ UNCHANGED <<snapshot, snapshotID>>
       \/ /\ Goto("dumpStructure")
          /\ snapshot' = srcDB
          /\ UNCHANGED snapshotID
    /\ UNCHANGED <<config, cancelledAt, srcDB, srcWrites, srcFKs, srcTxn, structureSQL,
                   dstDB, dstFKs, fkVars, idx, streamVars>>

\* "select pg_export_snapshot()": the first statement of the transaction,
\* which fixes what the transaction sees from here on. result.Rows has one
\* row, or (rows = 0) the answer is refused by the length test of line 84.
ExportSnapshot ==
    /\ pc = "exportSnapshot"
    /\ Logged("exportSnapshot", -1)
    /\ \/ /\ ~CtxDone
          /\ Goto("dumpStructure")
          /\ snapshot' = srcDB
          /\ snapshotID' = "00000003-0000001B-1"
       \/ /\ Abort(Wrap("error exporting snapshot", ExecErr))
          /\ UNCHANGED <<snapshot, snapshotID>>
       \/ /\ ~CtxDone
          /\ Abort(Wrap("expected one row from pg_export_snapshot", "got 0"))
          /\ snapshot' = srcDB
          /\ UNCHANGED snapshotID
    /\ UNCHANGED <<config, cancelledAt, srcDB, srcWrites, srcFKs, srcTxn, structureSQL,
                   dstDB, dstFKs, fkVars, idx, streamVars>>

\* pgDumpStructureFromSource(config.Source.DatabaseURL, snapshotID): pg_dump
\* --snapshot reads the schema the transaction sees, and exits with an error
\* when it is given no snapshot.
pgDumpStructureFromSource ==
    /\ pc = "dumpStructure"
    /\ Logged("dumpStructure", -1)
    /\ \/ /\ snapshotID # ""
          /\ Goto("prepareDestination")
          /\ structureSQL' = srcFKs
       \/ /\ Abort(Wrap("error dumping structure from source", ExitErr))
          /\ UNCHANGED structureSQL
    /\ UNCHANGED <<config, cancelledAt, srcVars, dstDB, dstFKs, fkVars, idx, streamVars>>

\* prepareDestination(config.Destination): nothing to run, and no failure,
\* when PrepareCommand is empty.
prepareDestination ==
    /\ pc = "prepareDestination"
    /\ Logged("prepareDestination", -1)
    /\ \/ Goto("loadStructure")
       \/ /\ config.PrepareCommand # ""
          /\ Abort(Wrap("error preparing destination", ExitErr))
    /\ UNCHANGED <<config, cancelledAt, srcVars, structureSQL, dstDB, dstFKs, fkVars, idx,
                   streamVars>>

\* loadStructureToDestination: psql creates the (empty) tables and their
\* foreign keys from structureSQL.
loadStructureToDestination ==
    /\ pc = "loadStructure"
    /\ Logged("loadStructure", -1)
    /\ \/ /\ Goto("connectDestination")
          /\ dstDB' = EmptyDB
          /\ dstFKs' = structureSQL
       \/ /\ Abort(Wrap("error loading structure to destination", ExitErr))
          /\ UNCHANGED <<dstDB, dstFKs>>
    /\ UNCHANGED <<config, cancelledAt, srcVars, structureSQL, fkVars, idx, streamVars>>

\* pgconn.Connect(ctx, config.Destination.DatabaseURL)
ConnectDestination ==
    /\ pc = "connectDestination"
    /\ Logged("connectDestination", -1)
    /\ \/ /\ ~CtxDone
          /\ destinationConn' = "open"
          /\ pc' = "dropQuery"
          /\ UNCHANGED <<err, sourceConn>>
       \/ Abort(Wrap("error connecting to destination database", ConnErr))
    /\ UNCHANGED <<config, cancelledAt, srcVars, structureSQL, dstDB, dstFKs, fkVars, idx,
                   streamVars>>

\* "return nil" of pgPartialCopy (line 134), with the deferred Close calls.
ReturnNil ==
    /\ pc' = "done"
    /\ err' = NoErr
    /\ sourceConn' = "closed"
    /\ destinationConn' = "closed"

\* A loop that begins a new source transaction before each later step.
StepsLoopPcBeginning(i) ==
    IF i < Len(config.Steps) THEN (IF i > 0 THEN "begin" ELSE "executeStep")
    ELSE "recreate"

\* Where the loop "for i, step := range config.Steps" goes with index i.
StepsLoopPc(i) == IF i < Len(config.Steps) THEN "executeStep" ELSE "recreate"

\* ------------------------------------------- dropForeignKeyConstraints
\* The orders in which the catalog query may return a set of constraints.
Orderings(S) ==
    {s \in [1..Cardinality(S) -> S] : \A i, j \in DOMAIN s : i # j => s[i] # s[j]}

\* fmt.Sprintf("alter table %s drop constraint %s", tableName, constraintName)
dropConstraintSQL(tableName, constraintName) ==
    [verb |-> "drop constraint", table |-> tableName, name |-> constraintName,
     def |-> ""]

\* A recreate command built from a regenerated definition instead of the
\* captured one.
addConstraintSQLRegenerated(tableName, constraintName, constraintDefinition) ==
    [verb |-> "add constraint", table |-> tableName, name |-> constraintName,
     def |-> "FOREIGN KEY (id) REFERENCES a(id)"]

\* fmt.Sprintf("alter table %s add constraint %s %s", tableName,
\*             constraintName, constraintDefinition)
addConstraintSQL(tableName, constraintName, constraintDefinition) ==
    [verb |-> "add constraint", table |-> tableName, name |-> constraintName,
     def |-> constraintDefinition]

\* A drop statement that left the constraint in place.
AlterTableNoDrop(sql, fks) ==
    IF sql.verb = "drop constraint" THEN fks
    ELSE fks \cup {[table |-> sql.table, name |-> sql.name, def |-> sql.def]}

\* The destination's foreign keys after an alter table statement.
AlterTable(sql, fks) ==
    IF sql.verb = "drop constraint"
    THEN {fk \in fks : ~(fk.table = sql.table /\ fk.name = sql.name)}
    ELSE fks \cup {[table |-> sql.table, name |-> sql.name, def |-> sql.def]}

\* Lines 162-171: the catalog query; with no rows the loop body never runs
\* and the (empty) list is returned at once.
DropQuery ==
    /\ pc = "dropQuery"
    /\ Logged("dropFK", -1)
    /\ \/ \E rows \in Orderings(dstFKs) :
            /\ ~CtxDone
            /\ fkRows' = rows
            /\ fkPos' = 0
            /\ recreateCmds' = <<>>
            /\ Goto(IF Len(rows) = 0 THEN StepsLoopPc(0) ELSE "dropLoop")
       \/ /\ Abort(Wrap("error dropping foreign key constraints", ExecErr))
          /\ UNCHANGED <<fkRows, fkPos, recreateCmds>>
    /\ UNCHANGED <<config, cancelledAt, srcVars, structureSQL, dstDB, dstFKs, cmdPos, idx,
                   streamVars>>

\* Lines 173-185, one iteration: drop the constraint of the row, then append
\* its recreate command. A failed drop returns (nil, err): the caller gets
\* no list.
DropIter ==
    /\ pc = "dropLoop"
    /\ fkPos < Len(fkRows)
    /\ LET row == fkRows[fkPos + 1]
           tableName == row.table
           constraintName == row.name
           constraintDefinition == row.def
       IN \/ /\ ~CtxDone
             /\ dstFKs' = AlterTable(dropConstraintSQL(tableName, constraintName),
                                     dstFKs)
             /\ recreateCmds' =
                   Append(recreateCmds,
                          addConstraintSQL(tableName, constraintName,
                                           constraintDefinition))
             /\ fkPos' = fkPos + 1
             /\ Goto(IF fkPos + 1 = Len(fkRows) THEN StepsLoopPc(0)
                     ELSE "dropLoop")
          \/ /\ Abort(Wrap("error dropping foreign key constraints", ExecErr))
             /\ recreateCmds' = <<>>
             /\ UNCHANGED <<dstFKs, fkPos>>
    /\ UNCHANGED <<config, cancelledAt, srcVars, structureSQL, dstDB, fkRows, cmdPos, idx,
                   streamVars, log>>

\* ----------------------------------------- recreateForeignKeyConstraints
\* With no commands the loop body never runs: return nil.
RecreateNone ==
    /\ pc = "recreate"
    /\ Len(recreateCmds) = 0
    /\ Logged("recreateFK", -1)
    /\ ReturnNil
    /\ UNCHANGED <<config, cancelledAt, srcVars, structureSQL, dstDB, dstFKs, fkVars, idx,
                   streamVars>>

\* A loop that goes on to the next command after a failed one.
RecreateIterSwallowing ==
    /\ pc = "recreate"
    /\ cmdPos < Len(recreateCmds)
    /\ log' = IF cmdPos = 0 THEN Append(log, Ev("recreateFK", -1)) ELSE log
    /\ LET cmd == recreateCmds[cmdPos + 1]
           fk == [table |-> cmd.table, name |-> cmd.name, def |-> cmd.def]
       IN /\ dstFKs' = IF FKHolds(fk, dstDB) THEN AlterTable(cmd, dstFKs)
                       ELSE dstFKs
          /\ cmdPos' = cmdPos + 1
          /\ IF cmdPos + 1 = Len(recreateCmds) THEN ReturnNil
             ELSE Goto("recreate")
    /\ UNCHANGED <<config, cancelledAt, srcVars, structureSQL, dstDB, fkRows, fkPos,
                   recreateCmds, idx, streamVars>>

\* Lines 191-196, one iteration. Adding a foreign key validates the rows
\* that are there: the server refuses it when they violate it.
RecreateIter ==
    /\ pc = "recreate"
    /\ cmdPos < Len(recreateCmds)
    /\ log' = IF cmdPos = 0 THEN Append(log, Ev("recreateFK", -1)) ELSE log
    /\ LET cmd == recreateCmds[cmdPos + 1]
           fk == [table |-> cmd.table, name |-> cmd.name, def |-> cmd.def]
       IN \/ /\ ~CtxDone
             /\ FKHolds(fk, dstDB)
             /\ dstFKs' = AlterTable(cmd, dstFKs)
             /\ cmdPos' = cmdPos + 1
             /\ IF cmdPos + 1 = Len(recreateCmds) THEN ReturnNil
                ELSE Goto("recreate")
          \/ /\ Abort(Wrap("error recreating foreign key constraints",
                           IF FKHolds(fk, dstDB) THEN ExecErr
                           ELSE FKViolationErr))
             /\ UNCHANGED <<dstFKs, cmdPos>>
    /\ UNCHANGED <<config, cancelledAt, srcVars, structureSQL, dstDB, fkRows, fkPos,
                   recreateCmds, idx, streamVars>>

\* ---------------------------------------------------------- executeStep
step == config.Steps[idx + 1]

\* What a statement on the destination leaves in the tables.
ExecSQL(sql, db) ==
    CASE sql = InsertSQL -> [db EXCEPT !["a"] = Append(@, 4)]
      [] sql = DeleteSQL -> [db EXCEPT !["a"] = SelectSeq(@, LAMBDA r : ~(r > 1))]
      [] OTHER -> db

\* The rows a query returns on a view of the source.
EvalSelect(sql, db) ==
    CASE sql = FilterSQL -> SelectSeq(SortedSeq(db["a"]), LAMBDA r : r > 1)
      [] sql = TransformSQL ->
            [i \in 1..Cardinality(db["a"]) |-> SortedSeq(db["a"])[i] * 2]

\* An export that ignored the select expression.
copyToSQLTableOnly(st) == [verb |-> "copy table", text |-> st.TableName]

\* Lines 213-218: the statement of the export.
copyToSQL(st) ==
    IF st.SelectSQL # ""
    THEN [verb |-> "copy query", text |-> st.SelectSQL]
    ELSE [verb |-> "copy table", text |-> st.TableName]

\* Line 228: the statement of the import.
copyFromSQL(st) == [verb |-> "copy from stdin", text |-> st.TableName]

\* A statement that read the source outside the snapshot transaction.
LiveView == srcDB

\* What a statement on sourceConn reads: sourceConn is inside the
\* transaction begun at line 74, so it reads the snapshot.
SourceView == snapshot

\* The rows "copy ... to stdout" sends, one CopyData message each.
CopyToRows(sql, db) ==
    IF sql.verb = "copy table" THEN SortedSeq(db[sql.text])
    ELSE EvalSelect(sql.text, db)

\* A loop that passes over a step.
NextStepSkipping ==
    /\ idx' = idx + 2
    /\ Goto(StepsLoopPc(idx + 2))

\* A loop that replaces the destination connection for the next step.
NextStepReconnecting ==
    /\ idx' = idx + 1
    /\ pc' = StepsLoopPc(idx + 1)
    /\ destinationConn' = "reopened"
    /\ UNCHANGED <<err, sourceConn>>

\* The step that follows step idx, or the end of the loop.
NextStep ==
    /\ idx' = idx + 1
    /\ Goto(StepsLoopPc(idx + 1))

\* Lines 201-206: destinationConn.Exec(ctx, step.BeforeCopySQL).Close()
BeforeCopySQL ==
    /\ pc = "executeStep"
    /\ step.BeforeCopySQL # ""
    /\ Logged("beforeCopySQL", idx)
    /\ LET new == ExecSQL(step.BeforeCopySQL, dstDB)
       IN \/ /\ ~CtxDone
             /\ Refusal(new, dstFKs) = ""
             /\ dstDB' = new
             /\ Goto("pipe")
          \/ /\ Abort(WrapStep(idx, step.TableName,
                               "error executing before copy SQL",
                               IF Refusal(new, dstFKs) = "" THEN ExecErr
                               ELSE Refusal(new, dstFKs)))
             /\ UNCHANGED dstDB
    /\ UNCHANGED <<config, cancelledAt, srcVars, structureSQL, dstFKs, fkVars, idx,
                   streamVars>>

\* Lines 208-235: io.Pipe(), the errgroup and the two g.Go calls. The export
\* statement is evaluated on what sourceConn sees.
StartStream ==
    /\ \/ pc = "pipe"
       \/ pc = "executeStep" /\ step.BeforeCopySQL = ""
    /\ Logged("stream", idx)
    /\ Goto("wait")
    /\ pipe' = EmptyPipe
    /\ srcUnit' = "running"
    /\ dstUnit' = "running"
    /\ remaining' = CopyToRows(copyToSQL(step), SourceView)
    /\ received' = <<>>
    /\ gErr' = ""
    /\ streamBase' = dstDB[copyFromSQL(step).text]
    /\ UNCHANGED <<config, cancelledAt, srcVars, structureSQL, dstDB, dstFKs, fkVars, idx>>

\* A group that keeps the error of the goroutine that failed last.
LastErr(e) == e

\* errgroup: the first non-nil error returned by a goroutine is kept.
FirstErr(e) == IF gErr = "" THEN e ELSE gErr

\* A goroutine that returns and leaves the write end open.
NoClose(p) == p

\* The write end after the first goroutine returned: "defer w.Close()".
DeferredClose(p) == [p EXCEPT !.wClosed = TRUE]

\* A pipe with a buffer: a Write returns before its data has been read.
SrcWriteBuffered ==
    /\ srcUnit = "running"
    /\ remaining # <<>>
    /\ pipe' = [pipe EXCEPT !.slot = Append(@, Head(remaining))]
    /\ remaining' = Tail(remaining)
    /\ UNCHANGED <<config, cancelledAt, pc, err, sourceConn, destinationConn, srcVars,
                   structureSQL, dstDB, dstFKs, fkVars, idx, srcUnit, dstUnit,
                   received, gErr, streamBase, log>>

\* sourceConn.CopyTo writes the next CopyData message to w. io.Pipe has no
\* buffer: the Write returns when the reader has taken the data.
SrcWrite ==
    /\ srcUnit = "running"
    /\ ~CtxDone
    /\ pipe.slot = <<>>
    /\ remaining # <<>>
    /\ pipe' = [pipe EXCEPT !.slot = <<Head(remaining)>>]
    /\ remaining' = Tail(remaining)
    /\ UNCHANGED <<config, cancelledAt, pc, err, sourceConn, destinationConn, srcVars,
                   structureSQL, dstDB, dstFKs, fkVars, idx, srcUnit, dstUnit,
                   received, gErr, streamBase, log>>

\* CopyTo has written every row: return nil, and the deferred w.Close().
SrcDone ==
    /\ srcUnit = "running"
    /\ ~CtxDone
    /\ pipe.slot = <<>>
    /\ remaining = <<>>
    /\ srcUnit' = "ok"
    /\ pipe' = DeferredClose(pipe)
    /\ UNCHANGED <<config, cancelledAt, pc, err, sourceConn, destinationConn, srcVars,
                   structureSQL, dstDB, dstFKs, fkVars, idx, dstUnit,
                   remaining, received, gErr, streamBase, log>>

\* CopyTo fails between two writes (the query or the connection fails):
\* return err, and the deferred w.Close().
SrcFail ==
    /\ srcUnit = "running"
    /\ pipe.slot = <<>>
    /\ srcUnit' = "failed"
    /\ \E e \in CopyToErrs : gErr' = FirstErr(e)
    /\ pipe' = DeferredClose(pipe)
    /\ UNCHANGED <<config, cancelledAt, pc, err, sourceConn, destinationConn, srcVars,
                   structureSQL, dstDB, dstFKs, fkVars, idx, dstUnit,
                   remaining, received, streamBase, log>>

\* destinationConn.CopyFrom reads a message from r and sends it on.
DstRead ==
    /\ dstUnit = "running"
    /\ pipe.slot # <<>>
    /\ received' = Append(received, pipe.slot[1])
    /\ pipe' = [pipe EXCEPT !.slot = <<>>]
    /\ UNCHANGED <<config, cancelledAt, pc, err, sourceConn, destinationConn, srcVars,
                   structureSQL, dstDB, dstFKs, fkVars, idx, srcUnit, dstUnit,
                   remaining, gErr, streamBase, log>>

\* An import that replaces what the table holds.
ReplaceRows(rows, new) == new

\* "copy %s from stdin": the rows sent are added after those the table holds.
AppendRows(rows, new) == rows \o new

\* r.Read returns io.EOF (the write end is closed): CopyFrom ends the COPY
\* and the destination commits the rows it was sent, unless a constraint in
\* place refuses them.
DstEOF ==
    /\ dstUnit = "running"
    /\ ~CtxDone
    /\ pipe.slot = <<>>
    /\ pipe.wClosed
    /\ LET new == [dstDB EXCEPT ![copyFromSQL(step).text] =
                                    AppendRows(@, received)]
       IN IF Refusal(new, dstFKs) = ""
          THEN /\ dstDB' = new
               /\ dstUnit' = "ok"
               /\ UNCHANGED gErr
          ELSE /\ dstUnit' = "failed"
               /\ gErr' = FirstErr(Refusal(new, dstFKs))
               /\ UNCHANGED dstDB
    /\ UNCHANGED <<config, cancelledAt, pc, err, sourceConn, destinationConn, srcVars,
                   structureSQL, dstFKs, fkVars, idx, srcUnit, pipe,
                   remaining, received, streamBase, log>>

\* The destination refuses the COPY (a row does not fit the table, the
\* connection fails): nothing of the statement is kept, CopyFrom returns the
\* error and the goroutine returns it. r is not closed.
DstFail ==
    /\ dstUnit = "running"
    /\ dstUnit' = "failed"
    /\ \E e \in CopyFromErrs : gErr' = FirstErr(e)
    /\ UNCHANGED <<config, cancelledAt, pc, err, sourceConn, destinationConn, srcVars,
                   structureSQL, dstDB, dstFKs, fkVars, idx, srcUnit, pipe,
                   remaining, received, streamBase, log>>

\* A wait that takes a goroutine that has started for one that has returned.
Started(u) == u # "idle"

Terminal(u) == u \in {"ok", "failed"}

\* A step that goes on after a failed stream.
WaitIgnoringError ==
    /\ pc = "wait"
    /\ Terminal(srcUnit)
    /\ Terminal(dstUnit)
    /\ IF step.AfterCopySQL # ""
       THEN Goto("afterCopy") /\ UNCHANGED idx
       ELSE NextStep
    /\ UNCHANGED <<config, cancelledAt, srcVars, structureSQL, dstDB, dstFKs, fkVars,
                   streamVars, log>>

\* A wait that returns as soon as one goroutine has returned an error.
WaitFirstError ==
    /\ pc = "wait"
    /\ \/ gErr # ""
       \/ Terminal(srcUnit) /\ Terminal(dstUnit)
    /\ IF gErr # ""
       THEN /\ Abort(WrapStep(idx, step.TableName, "", gErr))
            /\ UNCHANGED idx
       ELSE IF step.AfterCopySQL # ""
            THEN Goto("afterCopy") /\ UNCHANGED idx
            ELSE NextStep
    /\ UNCHANGED <<config, cancelledAt, srcVars, structureSQL, dstDB, dstFKs, fkVars,
                   streamVars, log>>

\* Lines 237-241: g.Wait() returns once both goroutines have returned.
Wait ==
    /\ pc = "wait"
    /\ Terminal(srcUnit)
    /\ Terminal(dstUnit)
    /\ IF gErr # ""
       THEN /\ Abort(WrapStep(idx, step.TableName, "", gErr))
            /\ UNCHANGED idx
       ELSE IF step.AfterCopySQL # ""
            THEN Goto("afterCopy") /\ UNCHANGED idx
            ELSE NextStep
    /\ UNCHANGED <<config, cancelledAt, srcVars, structureSQL, dstDB, dstFKs, fkVars,
                   streamVars, log>>

\* Lines 241-246: destinationConn.Exec(ctx, step.AfterCopySQL).Close()
AfterCopySQL ==
    /\ pc = "afterCopy"
    /\ Logged("afterCopySQL", idx)
    /\ LET new == ExecSQL(step.AfterCopySQL, dstDB)
       IN \/ /\ ~CtxDone
             /\ Refusal(new, dstFKs) = ""
             /\ dstDB' = new
             /\ NextStep
          \/ /\ Abort(WrapStep(idx, step.TableName,
                               "error executing after copy SQL",
                               IF Refusal(new, dstFKs) = "" THEN ExecErr
                               ELSE Refusal(new, dstFKs)))
             /\ UNCHANGED <<dstDB, idx>>
    /\ UNCHANGED <<config, cancelledAt, srcVars, structureSQL, dstFKs, fkVars, streamVars>>

\* ------------------------------------------------------- other sessions
\* Another session commits a statement on the source: it inserts a new id
\* into a table or deletes the last id from it. The source's own foreign
\* keys hold of what it commits.
WriteRows == {SrcRows, SrcRows + 1}
SourceConsistent(db, fks) ==
    \A fk \in fks : db[fk.table] \subseteq db[RefTable(fk.def)]

SourceSessionWrite ==
    /\ pc \notin {"done", "aborted"}
    /\ srcWrites < MaxSrcWrites
    /\ srcWrites' = srcWrites + 1
    /\ \E t \in Tables, r \in WriteRows :
          /\ srcDB' = [srcDB EXCEPT ![t] = IF r = SrcRows THEN @ \ {r}
                                          ELSE @ \cup {r}]
          /\ srcDB' # srcDB
          /\ SourceConsistent(srcDB', srcFKs)
    /\ UNCHANGED <<config, cancelledAt, pc, err, sourceConn, destinationConn, snapshot,
                   snapshotID, srcFKs, srcTxn, structureSQL, dstDB, dstFKs,
                   fkVars, idx, streamVars, log>>

\* ---------------------------------------------------------- cancellation
\* The caller cancels the ctx it handed to pgPartialCopy (main passes
\* context.Background(), which is never cancelled). pgconn watches ctx during
\* its network calls; exec.Command and the pipe do not.
Cancel ==
    /\ pc \notin {"done", "aborted"}
    /\ ~CtxDone
    /\ cancelledAt' = Len(log)
    /\ UNCHANGED <<config, pc, err, sourceConn, destinationConn, srcVars,
                   structureSQL, dstDB, dstFKs, fkVars, idx, streamVars, log>>

\* CopyTo, CopyFrom return the context's error once they are at the network.
SrcObservesCancel == CtxDone /\ SrcFail
DstObservesCancel == CtxDone /\ DstFail

\* ------------------------------------------------------ specifications
Orchestrator ==
    \/ ConnectSource
    \/ BeforeTransactionSQL
    \/ BeginTransaction
    \/ ExportSnapshot
    \/ pgDumpStructureFromSource
    \/ prepareDestination
    \/ loadStructureToDestination
    \/ ConnectDestination
    \/ DropQuery
    \/ DropIter
    \/ BeforeCopySQL
    \/ StartStream
    \/ Wait
    \/ AfterCopySQL
    \/ RecreateNone
    \/ RecreateIter

SourceUnit == SrcWrite \/ SrcDone \/ SrcFail
DestinationUnit == DstRead \/ DstEOF \/ DstFail

Program == Orchestrator \/ SourceUnit \/ DestinationUnit

Next == Program \/ SourceSessionWrite

Spec == Init /\ [][Next]_vars

\* What a goroutine does when nothing fails.
SourceUnitRuns == SrcWrite \/ SrcDone
DestinationUnitRuns == DstRead \/ DstEOF

\* The Go scheduler runs every goroutine that can run, and the servers and
\* subprocesses answer. Nothing obliges a statement or a COPY to fail.
FairSpec ==
    /\ Spec
    /\ WF_vars(Orchestrator)
    /\ WF_vars(SourceUnitRuns)
    /\ WF_vars(DestinationUnitRuns)

\* pgPartialCopy called with a ctx its caller may cancel.
CancelNext == Next \/ Cancel

CancelSpec ==
    /\ Init
    /\ [][CancelNext]_vars
    /\ WF_vars(Orchestrator)
    /\ WF_vars(SourceUnitRuns)
    /\ WF_vars(DestinationUnitRuns)
    /\ WF_vars(SrcObservesCancel)
    /\ WF_vars(DstObservesCancel)

\* ================================================================ claims
InStep == pc \in {"executeStep", "pipe", "wait", "afterCopy"}
Steps == config.Steps
NSteps == Len(config.Steps)

\* Both goroutines of the current stream have returned and g.Wait() has not
\* yet been left, or it has returned their error.
StreamEnded ==
    \/ pc = "wait" /\ Terminal(srcUnit) /\ Terminal(dstUnit)
    \/ pc = "aborted" /\ err.msg = "error executing step" /\ err.inner = ""

\* The rows the export of the current step has to deliver.
StreamRows ==
    IF step.SelectSQL = "" THEN SortedSeq(snapshot[step.TableName])
    ELSE EvalSelect(step.SelectSQL, snapshot)

\* C1: if the destination-side import (CopyFrom) fails while the export
\* (CopyTo) still has data to write into the pipe, the export is terminated
\* and executeStep returns the failure instead of hanging: in every such
\* state the program can still take a step.
C1_ImportFailureEndsExport ==
    (pc = "wait" /\ dstUnit = "failed" /\ srcUnit = "running"
        /\ (pipe.slot # <<>> \/ remaining # <<>>))
    => ENABLED Program

\* C2: row streaming is all-or-nothing on the destination: when the stream
\* ends with an error the step's table holds none of the stream's rows, when
\* it ends with success it holds all of them.
C2_AllOrNothing ==
    StreamEnded =>
        dstDB[step.TableName] =
            IF gErr = "" THEN streamBase \o StreamRows ELSE streamBase

\* C3 as stated: after a successful run the destination table of every step
\* with no select expression holds exactly the rows of the same-named source
\* table in the snapshot.
C3_ExactCopyAnyConfiguration ==
    pc = "done" =>
        \A i \in 1..NSteps :
            Steps[i].SelectSQL = "" =>
                dstDB[Steps[i].TableName] =
                    SortedSeq(snapshot[Steps[i].TableName])

\* The destination tables a pre-copy or post-copy statement writes.
SQLWrites(sql) ==
    CASE sql = InsertSQL -> {"a"}
      [] sql = DeleteSQL -> {"a"}
      [] OTHER -> {}

\* Step i is the only thing the configuration lets write its table.
OnlyWriter(i) ==
    /\ \A j \in 1..NSteps : j # i => Steps[j].TableName # Steps[i].TableName
    /\ \A j \in 1..NSteps :
          Steps[i].TableName \notin
              SQLWrites(Steps[j].BeforeCopySQL) \cup SQLWrites(Steps[j].AfterCopySQL)

\* C3 (amended): after a successful run, the destination table of a step
\* with no select expression that nothing else of the configuration writes
\* holds exactly the rows the same-named source table had in the snapshot,
\* whatever other sessions wrote to the source afterwards.
C3_SnapshotCopy ==
    pc = "done" =>
        \A i \in 1..NSteps :
            (Steps[i].SelectSQL = "" /\ OnlyWriter(i)) =>
                dstDB[Steps[i].TableName] =
                    SortedSeq(snapshot[Steps[i].TableName])

\* A successful run whose copied table was changed on the source after the
\* snapshot was taken.
C3_Witness ==
    /\ pc = "done"
    /\ \E i \in 1..NSteps :
          /\ Steps[i].SelectSQL = ""
          /\ OnlyWriter(i)
          /\ srcDB[Steps[i].TableName] # snapshot[Steps[i].TableName]
          /\ Len(dstDB[Steps[i].TableName]) >= SrcRows

\* The stream of the current step has succeeded and nothing has run since.
StreamSucceeded ==
    /\ pc \in {"wait", "afterCopy"}
    /\ srcUnit = "ok"
    /\ dstUnit = "ok"

IsAscending(s) == \A i, j \in DOMAIN s : i < j => s[i] < s[j]
Added == SubSeq(dstDB[step.TableName], Len(streamBase) + 1,
                Len(dstDB[step.TableName]))

\* C4: the rows a step's successful import adds to its table are exactly
\* the result of its select expression on the snapshot (the ids passing the
\* predicate, or the computed values), not the rows of the source table;
\* with no select expression they are the rows of the table named
\* table_name.
C4_SelectExpression ==
    StreamSucceeded =>
        /\ SubSeq(dstDB[step.TableName], 1, Len(streamBase)) = streamBase
        /\ IsAscending(Added)
        /\ Range(Added) =
              CASE step.SelectSQL = FilterSQL -> {r \in snapshot["a"] : r > 1}
                [] step.SelectSQL = TransformSQL -> {r * 2 : r \in snapshot["a"]}
                [] step.SelectSQL = "" -> snapshot[step.TableName]

\* A select expression whose result differs from the table has been copied.
C4_Witness ==
    /\ StreamSucceeded
    /\ step.SelectSQL # ""
    /\ Added # <<>>
    /\ Range(Added) # snapshot["a"]

\* The constraints the catalog query found.
Discovered == {[table |-> fkRows[k].table, name |-> fkRows[k].name] :
                 k \in DOMAIN fkRows}
Present == {[table |-> fk.table, name |-> fk.name] : fk \in dstFKs}

\* C5: while a step executes, no discovered foreign key exists on the
\* destination (all were found and dropped before step 0, none is back
\* before the last step is over), so no import is refused for a foreign-key
\* violation, whatever the order of the steps.
C5_NoForeignKeysDuringSteps ==
    /\ InStep =>
          /\ Discovered \cap Present = {}
          /\ {[table |-> fk.table, name |-> fk.name] : fk \in structureSQL}
                \subseteq Discovered
          /\ cmdPos = 0
    /\ gErr # FKViolationErr
    /\ err.msg = "error executing step" => err.cause # FKViolationErr

\* The referencing table b was imported first, while a is still empty.
C5_Witness ==
    /\ pc = "wait"
    /\ idx = 0
    /\ step.TableName = "b"
    /\ dstUnit = "ok"
    /\ srcUnit = "ok"
    /\ dstDB["b"] # <<>>
    /\ dstDB["a"] = <<>>
    /\ FKb \in structureSQL

\* ----------------------------------------------------- the history log
Has(ph, i) == \E k \in DOMAIN log : log[k] = Ev(ph, i)
Pos(ph, i) == CHOOSE k \in DOMAIN log : log[k] = Ev(ph, i)
Last == log[Len(log)]

\* C6: drop-then-recreate is a round trip: after a successful run the
\* foreign keys of the destination, as (table, name, definition) triples,
\* are those it had before dropForeignKeyConstraints ran, each recreated
\* from the definition text the catalog query returned.
C6_ForeignKeysRoundTrip ==
    pc = "done" =>
        /\ dstFKs = structureSQL
        /\ Len(recreateCmds) = Len(fkRows)
        /\ \A k \in DOMAIN fkRows :
              /\ recreateCmds[k].table = fkRows[k].table
              /\ recreateCmds[k].name = fkRows[k].name
              /\ recreateCmds[k].def = fkRows[k].def

\* A successful run with steps that dropped and recreated two constraints.
C6_Witness ==
    /\ pc = "done"
    /\ NSteps > 0
    /\ Cardinality(dstFKs) = 2
    /\ cmdPos = 2

\* C7: steps run strictly in configured order and never overlap: the events
\* of the steps appear in the log in step order, a step starts only when
\* every earlier step ran its stream (and its post-copy SQL, if any) with
\* success, and no goroutine of a stream runs outside that stream's wait.
C7_StepsInOrder ==
    /\ idx \in 0..NSteps
    /\ \A k, l \in DOMAIN log :
          (k < l /\ log[k].i >= 0 /\ log[l].i >= 0) => log[k].i <= log[l].i
    /\ \A k \in DOMAIN log :
          log[k].i >= 0 =>
              /\ log[k].i < NSteps
              /\ \A j \in 0..(log[k].i - 1) :
                    /\ Has("stream", j)
                    /\ Pos("stream", j) < k
                    /\ Steps[j + 1].AfterCopySQL # "" =>
                          (Has("afterCopySQL", j) /\ Pos("afterCopySQL", j) < k)
    /\ (srcUnit = "running" \/ dstUnit = "running") =>
          (pc = "wait" /\ Last = Ev("stream", idx))
    /\ (pc \in {"executeStep", "pipe"} /\ idx > 0) =>
          (srcUnit = "ok" /\ dstUnit = "ok" /\ gErr = "")
    /\ pc \in {"recreate", "done"} =>
          \A j \in 0..(NSteps - 1) : Has("stream", j)

\* The second step streams after the first step's post-copy SQL.
C7_Witness ==
    /\ pc = "wait"
    /\ idx = 1
    /\ srcUnit = "running"
    /\ Has("afterCopySQL", 0)

\* C8: within a step the order is pre-copy SQL, stream, post-copy SQL, with
\* no overlap; a failed pre-copy SQL leaves the stream and the post-copy SQL
\* unrun, a failed stream leaves the post-copy SQL unrun.
C8_StepPhasesInOrder ==
    /\ \A i \in 0..(NSteps - 1) :
          /\ Has("beforeCopySQL", i) => Steps[i + 1].BeforeCopySQL # ""
          /\ Has("afterCopySQL", i) => Steps[i + 1].AfterCopySQL # ""
          /\ (Has("stream", i) /\ Steps[i + 1].BeforeCopySQL # "") =>
                (Has("beforeCopySQL", i)
                   /\ Pos("beforeCopySQL", i) < Pos("stream", i))
          /\ Has("afterCopySQL", i) =>
                (Has("stream", i) /\ Pos("stream", i) < Pos("afterCopySQL", i))
    /\ pc \in {"executeStep", "pipe"} =>
          (srcUnit # "running" /\ dstUnit # "running")
    /\ (pc = "afterCopy" \/ (log # <<>> /\ Last.ph = "afterCopySQL")) =>
          (srcUnit = "ok" /\ dstUnit = "ok" /\ gErr = "")
    /\ (pc = "aborted" /\ err.inner = "error executing before copy SQL") =>
          (~Has("stream", err.step) /\ ~Has("afterCopySQL", err.step))
    /\ (pc = "aborted" /\ err.msg = "error executing step" /\ err.inner = "") =>
          ~Has("afterCopySQL", err.step)
    /\ (InStep /\ gErr # "") => ~Has("afterCopySQL", idx)

\* The post-copy SQL of a step with pre-copy SQL is about to run.
C8_Witness ==
    /\ pc = "afterCopy"
    /\ Has("beforeCopySQL", idx)
    /\ Has("stream", idx)
    /\ dstDB[step.TableName] # <<>>

\* The phases of a run, in order (README, "How It Works").
PhaseOrder ==
    << "connectSource", "beforeTransactionSQL", "begin", "exportSnapshot",
       "dumpStructure", "prepareDestination", "loadStructure",
       "connectDestination", "dropFK", "steps", "recreateFK" >>
Phase(e) == IF e.i >= 0 THEN "steps" ELSE e.ph
Rank(e) == CHOOSE r \in DOMAIN PhaseOrder : PhaseOrder[r] = Phase(e)
HasPhase(r) ==
    IF PhaseOrder[r] = "steps" THEN \A j \in 0..(NSteps - 1) : Has("stream", j)
    ELSE Has(PhaseOrder[r], -1)

\* C9: the phases of a run occur in one fixed linear order, each after the
\* previous one succeeded: the log is ordered by phase, a phase is in it only
\* with every earlier phase (the before-transaction SQL only when it is
\* non-empty, and then before the begin), and only after the earlier phases
\* had their effect.
C9_PhasesInOrder ==
    /\ \A k, l \in DOMAIN log :
          k < l => \/ Rank(log[k]) < Rank(log[l])
                   \/ (Rank(log[k]) = Rank(log[l]) /\ log[k].i >= 0)
    /\ \A k \in DOMAIN log : \A r \in 1..(Rank(log[k]) - 1) :
          \/ HasPhase(r)
          \/ (PhaseOrder[r] = "beforeTransactionSQL"
                /\ config.BeforeTransactionSQL = "")
    /\ Has("beforeTransactionSQL", -1) => config.BeforeTransactionSQL # ""
    /\ Has("begin", -1) => sourceConn # "none"
    /\ srcTxn = "open" => Has("begin", -1)
    /\ Has("exportSnapshot", -1) => srcTxn = "open"
    /\ Has("dumpStructure", -1) => snapshotID # ""
    /\ Has("dropFK", -1) => destinationConn # "none"
    /\ destinationConn # "none" => Has("loadStructure", -1)
    /\ pc = "done" => (Has("recreateFK", -1) /\ Last = Ev("recreateFK", -1))

\* A successful run that executed every phase, the optional one included.
C9_Witness ==
    /\ pc = "done"
    /\ Has("beforeTransactionSQL", -1)
    /\ NSteps = MaxSteps

\* The phase an error names.
FailedPhase(e) ==
    CASE e.msg = "error connecting to source database" -> Ev("connectSource", -1)
      [] e.msg = "error executing before transaction SQL" ->
            Ev("beforeTransactionSQL", -1)
      [] e.msg = "error starting transaction" -> Ev("begin", -1)
      [] e.msg = "error exporting snapshot" -> Ev("exportSnapshot", -1)
      [] e.msg = "expected one row from pg_export_snapshot" ->
            Ev("exportSnapshot", -1)
      [] e.msg = "error dumping structure from source" -> Ev("dumpStructure", -1)
      [] e.msg = "error preparing destination" -> Ev("prepareDestination", -1)
      [] e.msg = "error loading structure to destination" ->
            Ev("loadStructure", -1)
      [] e.msg = "error connecting to destination database" ->
            Ev("connectDestination", -1)
      [] e.msg = "error dropping foreign key constraints" -> Ev("dropFK", -1)
      [] e.msg = "error recreating foreign key constraints" ->
            Ev("recreateFK", -1)
      [] e.msg = "error executing step" ->
            Ev(CASE e.inner = "error executing before copy SQL" -> "beforeCopySQL"
                 [] e.inner = "error executing after copy SQL" -> "afterCopySQL"
                 [] OTHER -> "stream", e.step)

C10_State ==
    /\ \A k, l \in DOMAIN log : k # l => log[k] # log[l]
    /\ pc = "aborted" => (err # NoErr /\ Last = FailedPhase(err))
    /\ pc # "aborted" => err = NoErr
    /\ (gErr # "" /\ Terminal(srcUnit) /\ Terminal(dstUnit)) =>
          pc \in {"wait", "aborted"}
    /\ (pc = "aborted" /\ err.msg = "error executing step") =>
          /\ ~Has("recreateFK", -1)
          /\ cmdPos = 0
          /\ Discovered \cap Present = {}

C10_Step ==
    /\ pc = "aborted" =>
          UNCHANGED <<pc, err, log, dstDB, dstFKs, fkVars, idx, streamVars,
                      sourceConn, destinationConn>>
    /\ pc' = "aborted" => (dstDB' = dstDB /\ dstFKs' = dstFKs)

\* C10: any failure aborts the run at once: the failing phase is the last
\* one executed, no phase is executed twice, nothing changes after the
\* abort, the abort undoes nothing on the destination, and after a failed
\* step the foreign keys stay dropped: recreateForeignKeyConstraints is not
\* invoked.
C10_AbortAtOnce == []C10_State /\ [][C10_Step]_vars

\* A run aborted by its second step, the first one's rows and the dropped
\* foreign keys left as they are.
C10_Witness ==
    /\ pc = "aborted"
    /\ err.msg = "error executing step"
    /\ err.step = 1
    /\ fkRows # <<>>
    /\ dstFKs = {}
    /\ \E t \in Tables : dstDB[t] # <<>>

\* C11: on every path by which pgPartialCopy returns, success or abort in any
\* phase, every connection opened during the run is closed: the source
\* connection (with its transaction) unless connecting to the source was what
\* failed, the destination connection if it was reached.
C11_ConnectionsClosedOnReturn ==
    pc \in {"done", "aborted"} =>
        /\ sourceConn # "open"
        /\ destinationConn # "open"
        /\ sourceConn = "none" =>
              (pc = "aborted" /\ err.msg = "error connecting to source database")
        /\ destinationConn = "none" =>
              /\ pc = "aborted"
              /\ \/ ~Has("connectDestination", -1)
                 \/ err.msg = "error connecting to destination database"
        /\ srcTxn = "open" => sourceConn = "closed"

\* A run aborted by a step: both connections were open, the transaction too.
C11_Witness ==
    /\ pc = "aborted"
    /\ err.msg = "error executing step"
    /\ srcTxn = "open"
    /\ sourceConn = "closed"
    /\ destinationConn = "closed"

\* C12: pgPartialCopy returns success after all phases, or one error: that of
\* the first failing phase, which it names; the error of a step also carries
\* the step's index in the configured list and its table name.
C12_OneErrorOfFirstFailingPhase ==
    /\ pc = "done" =>
          /\ err = NoErr
          /\ \A r \in DOMAIN PhaseOrder :
                \/ HasPhase(r)
                \/ (PhaseOrder[r] = "beforeTransactionSQL"
                      /\ config.BeforeTransactionSQL = "")
    /\ pc \notin {"done", "aborted"} => err = NoErr
    /\ pc = "aborted" =>
          /\ err.msg # ""
          /\ err.cause # ""
          /\ Phase(FailedPhase(err)) = Phase(Last)
          /\ FailedPhase(err).ph = Last.ph
          /\ IF Last.i >= 0
             THEN /\ err.step = Last.i
                  /\ err.step = idx
                  /\ err.table = Steps[Last.i + 1].TableName
             ELSE err.step = -1 /\ err.table = ""

\* The second step of a list failed: the error names index 1 and table b.
C12_Witness ==
    /\ pc = "aborted"
    /\ err.msg = "error executing step"
    /\ err.step = 1
    /\ err.table = "b"
    /\ Steps[1].TableName = "a"

IsPrefix(s, t) == Len(s) <= Len(t) /\ SubSeq(t, 1, Len(s)) = s

C13_State == pc = "wait" => IsPrefix(streamBase, dstDB[step.TableName])

C13_Step ==
    pc = "wait" =>
        /\ IsPrefix(dstDB[step.TableName], dstDB'[step.TableName])
        /\ \A t \in Tables : t # step.TableName => dstDB'[t] = dstDB[t]

\* C13: a step's import only appends to the table named by table_name: the
\* rows the table held when the import started (from pre-copy SQL, from an
\* earlier step) are still there, in place, after it, and the import changes
\* no other destination table.
C13_ImportOnlyAppends == []C13_State /\ [][C13_Step]_vars

\* An import into a table that held a row, with rows in the other table.
C13_Witness ==
    /\ pc = "wait"
    /\ srcUnit = "ok"
    /\ dstUnit = "ok"
    /\ streamBase # <<>>
    /\ Len(dstDB[step.TableName]) > Len(streamBase)
    /\ \E t \in Tables : t # step.TableName /\ dstDB[t] # <<>>

\* C14: when the source-read goroutine fails, the pipe is closed with its
\* error, so the destination-write goroutine sees a failed read and not the
\* end of the stream: it never ends with success after a failed export.
C14_FailedExportFailsImport == srcUnit = "failed" => dstUnit # "ok"

\* C15: when the source-read goroutine has returned (nil or an error) while
\* the destination-write goroutine is still reading the pipe, the reader is
\* unblocked, returns, and g.Wait() is left: the consumer never waits for
\* ever on a producer that has stopped.
C15_ProducerStopUnblocksConsumer ==
    (pc = "wait" /\ Terminal(srcUnit) /\ dstUnit = "running")
        ~> (Terminal(dstUnit) /\ pc # "wait")

\* The export has returned while the import, with rows in hand, is reading.
C15_Witness ==
    /\ pc = "wait"
    /\ Terminal(srcUnit)
    /\ dstUnit = "running"
    /\ pipe.wClosed
    /\ received # <<>>

C16_State ==
    (srcUnit = "running" \/ dstUnit = "running") =>
        /\ pc = "wait"
        /\ Last = Ev("stream", idx)
        /\ ~Has("afterCopySQL", idx)
        /\ ~Has("recreateFK", -1)
        /\ cmdPos = 0
        /\ sourceConn = "open"
        /\ destinationConn = "open"

C16_Step ==
    (pc = "wait" /\ pc' # "wait") => (Terminal(srcUnit) /\ Terminal(dstUnit))

\* C16: executeStep leaves its streaming phase only when both goroutines
\* have returned: while either of them runs, no post-copy SQL, no later
\* step, no constraint recreation and no connection close takes place.
C16_WaitsForBothUnits == []C16_State /\ [][C16_Step]_vars

\* One goroutine has returned an error while the other is still running.
C16_Witness ==
    /\ pc = "wait"
    /\ gErr # ""
    /\ \/ srcUnit = "failed" /\ dstUnit = "running"
       \/ dstUnit = "failed" /\ srcUnit = "running"

C17_State ==
    /\ (pc = "wait" /\ Terminal(srcUnit) /\ Terminal(dstUnit)) =>
          (gErr = "" <=> (srcUnit = "ok" /\ dstUnit = "ok"))
    /\ (pc = "aborted" /\ err.msg = "error executing step" /\ err.inner = "") =>
          /\ err.cause = gErr
          /\ gErr # ""
          /\ (srcUnit = "failed" \/ dstUnit = "failed")
          /\ err.cause \in CopyToErrs \ CopyFromErrs => srcUnit = "failed"
          /\ err.cause \notin CopyToErrs => dstUnit = "failed"

C17_Step ==
    /\ (pc = "wait" /\ pc' = "wait" /\ gErr # "") => gErr' = gErr
    /\ (srcUnit = "running" /\ srcUnit' = "failed" /\ gErr = "") =>
          gErr' \in CopyToErrs
    /\ (dstUnit = "running" /\ dstUnit' = "failed" /\ gErr = "") =>
          gErr' \in CopyFromErrs \cup {UniqueViolationErr, FKViolationErr}
    /\ (pc = "wait" /\ pc' # "wait") =>
          IF srcUnit = "ok" /\ dstUnit = "ok"
          THEN pc' # "aborted" /\ err' = NoErr
          ELSE pc' = "aborted" /\ err'.cause = gErr /\ err'.inner = ""

\* C17: the streaming phase succeeds exactly when both goroutines succeed;
\* otherwise the error it returns is the first one a goroutine returned: a
\* later error of the other goroutine does not replace it.
C17_FirstErrorOfEitherUnit == []C17_State /\ [][C17_Step]_vars

\* Both goroutines failed, the import first: the import's error is returned.
C17_Witness ==
    /\ pc = "aborted"
    /\ srcUnit = "failed"
    /\ dstUnit = "failed"
    /\ err.cause = CopyFromErr

\* The constraint a row of the catalog query describes, and the command that
\* recreates it.
RowFK(row) == [table |-> row.table, name |-> row.name, def |-> row.def]
CmdFK(cmd) == [table |-> cmd.table, name |-> cmd.name, def |-> cmd.def]

\* C18: every constraint dropForeignKeyConstraints has dropped has its
\* recreate command in the list the caller holds, at every moment, also when
\* a later drop of the loop fails.
C18_DroppedConstraintsAreCaptured ==
    \A k \in DOMAIN fkRows :
        RowFK(fkRows[k]) \notin dstFKs =>
            \E j \in DOMAIN recreateCmds : CmdFK(recreateCmds[j]) = RowFK(fkRows[k])

C19_State ==
    /\ cmdPos <= Len(recreateCmds)
    /\ Has("recreateFK", -1) =>
          dstFKs = {CmdFK(recreateCmds[j]) : j \in 1..cmdPos}
    /\ \A j \in DOMAIN recreateCmds : CmdFK(recreateCmds[j]) = RowFK(fkRows[j])
    /\ pc = "done" => cmdPos = Len(recreateCmds)
    /\ (pc = "aborted" /\ Has("recreateFK", -1)) =>
          /\ err.msg = "error recreating foreign key constraints"
          /\ err.cause # ""
          /\ cmdPos < Len(recreateCmds)
          /\ \A j \in (cmdPos + 1)..Len(recreateCmds) :
                CmdFK(recreateCmds[j]) \notin dstFKs

C19_Step ==
    /\ cmdPos' \in {cmdPos, cmdPos + 1}
    /\ pc = "recreate" => recreateCmds' = recreateCmds
    /\ cmdPos' = cmdPos + 1 =>
          dstFKs' = dstFKs \cup {CmdFK(recreateCmds[cmdPos + 1])}
    /\ (pc = "recreate" /\ pc' # "recreate") => pc' \in {"aborted", "done"}
    /\ (pc = "recreate" /\ pc' = "aborted") =>
          (cmdPos' = cmdPos /\ dstFKs' = dstFKs)

\* C19: recreateForeignKeyConstraints executes the captured commands in
\* capture order, one at a time; when command k fails, commands 1..k-1 stay
\* applied, commands k..n are not executed and the failure is the error of
\* the run.
C19_RecreateInOrderStopsAtFailure == []C19_State /\ [][C19_Step]_vars

\* The second of two recreate commands failed: the first constraint is back.
C19_Witness ==
    /\ pc = "aborted"
    /\ err.msg = "error recreating foreign key constraints"
    /\ Len(recreateCmds) = 2
    /\ cmdPos = 1
    /\ Cardinality(dstFKs) = 1

\* The phases whose error is reported by aborts that leave a constraint
\* dropped: a drop loop that failed at a later row (C20_MissingAfterFailedDrop),
\* a failed step, a failed recreation.
KindsReportedWithMissing == {"dropFK", "steps", "recreateFK"}

\* An abort of the drop loop after it had dropped a constraint.
C20_MissingAfterFailedDrop ==
    /\ pc = "aborted"
    /\ Phase(FailedPhase(err)) = "dropFK"
    /\ \E k \in DOMAIN fkRows : RowFK(fkRows[k]) \notin dstFKs

\* C20: the error of an abort tells whether constraints are missing: an
\* abort that leaves every foreign key of the destination in place never
\* reports a kind (phase) that aborts leaving a constraint dropped report.
C20_KindTellsConstraintsMissing ==
    (pc = "aborted" /\ structureSQL # {} /\ dstFKs = structureSQL) =>
        Phase(FailedPhase(err)) \notin KindsReportedWithMissing

\* The stream of a step failed and executeStep returned its error.
StreamAborted ==
    pc = "aborted" /\ err.msg = "error executing step" /\ err.inner = ""

\* The side a reader of the reported error can tell: the error has the
\* step's index, its table and the cause, and the cause is all that differs
\* between a failed export and a failed import.
SideOf(e) ==
    IF e.cause \in CopyToErrs \ CopyFromErrs THEN "source"
    ELSE IF e.cause \in CopyToErrs \cap CopyFromErrs THEN ""
    ELSE "destination"

\* An import that failed alone with the error a failed export also reports.
C21_SameErrorFromImport ==
    /\ StreamAborted
    /\ err.cause = ConnLostErr
    /\ dstUnit = "failed"
    /\ srcUnit # "failed"

\* C21: the error reported for a failed row transfer carries which side
\* failed (export from the source, import into the destination) and the
\* underlying cause.
C21_ErrorCarriesSide ==
    StreamAborted =>
        /\ err.cause # ""
        /\ (srcUnit = "failed" /\ dstUnit # "failed") => SideOf(err) = "source"
        /\ (dstUnit = "failed" /\ srcUnit # "failed") =>
              SideOf(err) = "destination"

Count(ph) == Cardinality({k \in DOMAIN log : log[k].ph = ph})

\* Where pgPartialCopy is while it has no destination connection yet.
BeforeDestinationPcs ==
    {"connectSource", "beforeTransactionSQL", "begin", "exportSnapshot",
     "dumpStructure", "prepareDestination", "loadStructure",
     "connectDestination"}
\* Where pgPartialCopy is while it works on the destination connection.
DestinationPcs ==
    {"dropQuery", "dropLoop", "executeStep", "pipe", "wait", "afterCopy",
     "recreate"}

C22_State ==
    /\ Count("connectSource") <= 1
    /\ Count("connectDestination") <= 1
    /\ pc # "connectSource" => Count("connectSource") = 1
    /\ sourceConn \in {"none", "open", "closed"}
    /\ destinationConn \in {"none", "open", "closed"}
    /\ pc \notin {"connectSource", "done", "aborted"} => sourceConn = "open"
    /\ pc \in BeforeDestinationPcs => destinationConn = "none"
    /\ pc \in DestinationPcs => destinationConn = "open"

C22_Step ==
    /\ sourceConn' # sourceConn =>
          \/ /\ sourceConn = "none" /\ sourceConn' = "open"
             /\ pc = "connectSource"
          \/ /\ sourceConn = "open" /\ sourceConn' = "closed"
             /\ pc' \in {"done", "aborted"}
    /\ destinationConn' # destinationConn =>
          \/ /\ destinationConn = "none" /\ destinationConn' = "open"
             /\ pc = "connectDestination"
          \/ /\ destinationConn = "open" /\ destinationConn' = "closed"
             /\ pc' \in {"done", "aborted"}

\* C22: a run opens one source connection and at most one destination
\* connection, each once: every statement on the source from the
\* before-transaction SQL to the last export, and every statement on the
\* destination from the foreign-key drop to the recreation, runs on that
\* connection, which stays open from its connect to the return.
C22_OneConnectionEach == []C22_State /\ [][C22_Step]_vars

\* Recreation is about to run after two steps, pre-copy and post-copy SQL and
\* the before-transaction SQL, all on the two connections opened at first.
C22_Witness ==
    /\ pc = "recreate"
    /\ Has("beforeTransactionSQL", -1)
    /\ Has("beforeCopySQL", 0)
    /\ Has("afterCopySQL", 0)
    /\ Has("stream", 1)
    /\ sourceConn = "open"
    /\ destinationConn = "open"

\* Who has an operation in flight on the source connection: pgPartialCopy
\* with a statement, the first goroutine with CopyTo, the deferred Close.
SourceConnUsers ==
    (IF pc \in {"beforeTransactionSQL", "begin", "exportSnapshot"}
     THEN {"pgPartialCopy"} ELSE {})
    \cup (IF srcUnit = "running" THEN {"CopyTo"} ELSE {})
    \cup (IF sourceConn = "closed" THEN {"Close"} ELSE {})

\* The same for the destination connection and CopyFrom.
DestinationConnUsers ==
    (IF \/ pc \in {"dropQuery", "dropLoop", "afterCopy", "recreate"}
        \/ (pc = "executeStep" /\ step.BeforeCopySQL # "")
     THEN {"pgPartialCopy"} ELSE {})
    \cup (IF dstUnit = "running" THEN {"CopyFrom"} ELSE {})
    \cup (IF destinationConn = "closed" THEN {"Close"} ELSE {})

\* C23: at every moment each connection carries at most one operation: the
\* source connection is used by pgPartialCopy or, during a stream, by the
\* source-read goroutine alone; the destination connection by pgPartialCopy
\* or, during a stream, by the destination-write goroutine alone.
C23_OneOperationPerConnection ==
    /\ Cardinality(SourceConnUsers) <= 1
    /\ Cardinality(DestinationConnUsers) <= 1
    /\ srcUnit = "running" => (pc = "wait" /\ sourceConn = "open")
    /\ dstUnit = "running" => (pc = "wait" /\ destinationConn = "open")

\* Both goroutines of the second step are at work, each on its connection,
\* after pgPartialCopy ran post-copy SQL on the destination connection.
C23_Witness ==
    /\ pc = "wait"
    /\ idx = 1
    /\ srcUnit = "running"
    /\ dstUnit = "running"
    /\ received # <<>>
    /\ Has("afterCopySQL", 0)

\* Where pgPartialCopy is once the transaction has been begun.
InTransactionPcs ==
    {"exportSnapshot", "dumpStructure", "prepareDestination", "loadStructure",
     "connectDestination"} \cup DestinationPcs

C24_State ==
    /\ Count("begin") <= 1
    /\ srcTxn = "open" => Has("begin", -1)
    /\ pc \in InTransactionPcs => (srcTxn = "open" /\ sourceConn = "open")
    /\ \A k \in DOMAIN log :
          log[k].ph \in {"exportSnapshot", "stream"} =>
              (Has("begin", -1) /\ Pos("begin", -1) < k)
    /\ Has("begin", -1) =>
          \A k \in DOMAIN log :
              k > Pos("begin", -1) =>
                  log[k].ph \notin {"connectSource", "beforeTransactionSQL",
                                    "begin"}
    /\ Count("exportSnapshot") <= 1

C24_Step ==
    /\ srcTxn = "open" => srcTxn' = "open"
    /\ snapshotID # "" => (snapshot' = snapshot /\ snapshotID' = snapshotID)
    /\ (srcUnit # "running" /\ srcUnit' = "running") =>
          /\ srcTxn = "open"
          /\ remaining' = CopyToRows(copyToSQL(step), snapshot)

\* C24: once begun, the source transaction stays open and is the same for
\* the whole run: it is never committed, no second one is begun, every
\* step's export runs inside it (it reads what the transaction saw at its
\* first statement), and after the begin the run issues on the source only
\* the snapshot export and the steps' exports.
C24_OneSourceTransaction == []C24_State /\ [][C24_Step]_vars

\* The second step's export runs after another session changed the source.
C24_Witness ==
    /\ pc = "wait"
    /\ idx = 1
    /\ srcUnit = "running"
    /\ srcTxn = "open"
    /\ srcDB # snapshot
    /\ remaining # <<>>

C25_State ==
    /\ Count("dumpStructure") <= 1
    /\ pc = "dumpStructure" =>
          (snapshotID # "" /\ srcTxn = "open" /\ sourceConn = "open")
    /\ Has("dumpStructure", -1) =>
          /\ snapshotID # ""
          /\ srcTxn = "open"
          /\ Has("exportSnapshot", -1)
          /\ Pos("exportSnapshot", -1) < Pos("dumpStructure", -1)
    /\ snapshotID = "" => (~Has("dumpStructure", -1) /\ structureSQL = {})
    /\ (pc = "aborted"
          /\ err.msg \in {"expected one row from pg_export_snapshot",
                          "error exporting snapshot"}) =>
          (snapshotID = "" /\ ~Has("dumpStructure", -1))

C25_Step ==
    /\ structureSQL' # structureSQL =>
          /\ pc = "dumpStructure"
          /\ snapshotID # ""
          /\ srcTxn = "open"
          /\ sourceConn = "open"
          /\ sourceConn' = "open"
    /\ snapshotID # "" => snapshotID' = snapshotID

\* C25: the snapshot identifier the source transaction exported is passed to
\* the structure dump once per run, while that transaction is open, and to
\* nothing else; when the snapshot export does not return exactly one row
\* the run aborts without invoking the dump.
C25_SnapshotIDConsumedOnce == []C25_State /\ [][C25_Step]_vars

\* The dump has run on the exported snapshot, the transaction still open.
C25_Witness ==
    /\ pc = "prepareDestination"
    /\ snapshotID # ""
    /\ structureSQL # {}
    /\ srcTxn = "open"
    /\ sourceConn = "open"

\* The chunks the export of the current step has to write, and those it has
\* handed to w.Write so far.
Chunks == CopyToRows(copyToSQL(step), snapshot)
Produced == SubSeq(Chunks, 1, Len(Chunks) - Len(remaining))

\* C26: in the pipe of executeStep the chunks the destination-write
\* goroutine has consumed are at every moment a prefix, in order, of those
\* the source-read goroutine has produced; the producer is never more than
\* one chunk ahead (the chunk of the Write in progress); when both goroutines
\* succeed the two sequences are equal.
C26_PipeOrderAndBackpressure ==
    pc = "wait" =>
        /\ Len(remaining) <= Len(Chunks)
        /\ IsPrefix(received, Produced)
        /\ Len(Produced) - Len(received) <= 1
        /\ received \o pipe.slot = Produced
        /\ (srcUnit = "ok" /\ dstUnit = "ok") =>
              (received = Produced /\ Produced = Chunks)

\* The export is blocked in the Write of its second chunk, the first read.
C26_Witness ==
    /\ pc = "wait"
    /\ srcUnit = "running"
    /\ dstUnit = "running"
    /\ pipe.slot # <<>>
    /\ Len(received) = 1
    /\ Len(Produced) = 2

\* After the cancellation at most the phase that was in flight is executed.
C27_NoLaterPhase == CtxDone => Len(log) <= cancelledAt + 1

\* After the cancellation pgPartialCopy returns, no goroutine left running.
C27_Returns ==
    CtxDone ~> (pc \in {"done", "aborted"}
                  /\ srcUnit # "running" /\ dstUnit # "running")

\* C27: when ctx is cancelled at any point of a run (during a network call
\* on either connection, during a subprocess, while a goroutine is blocked
\* on the pipe), the run makes no further progress and pgPartialCopy
\* eventually returns with both goroutines returned, instead of going on or
\* hanging.
C27_CancelStopsRun == []C27_NoLaterPhase /\ C27_Returns

====
